---- MODULE Spec2Model ----
(***************************************************************************)
(* Model of the Catena IQS620A LoRaWAN sketch (Catena_Iqs620a_lorawan.ino):*)
(* the measurement cycle driven by the single LMIC job slot sensorJob, the *)
(* downlink handler that reconfigures the cycle, the sleep policy and the  *)
(* reboot deadline.                                                        *)
(*                                                                         *)
(* Time: millis() and gRebootMs are held in units of 1000 ms (the deadline *)
(* is a multiple of 1000 ms and exceeds the range of TLC integers when     *)
(* written in ms).                                                         *)
(* What a handler reads from its surroundings at the moment it runs is an  *)
(* input of its action: millis(), Serial.dtr(), gLoRaWAN.IsProvisioned()   *)
(* and the status the transport reports.  The operating flags are read     *)
(* from the configuration store and stay as they are across resets.        *)
(* Build: USBCON is defined (the Catena 4610 has native USB), so           *)
(* checkDeepSleep consults Serial.dtr().                                   *)
(* Board: Spec is the board as built, whose flash answers the probe of     *)
(* setup_flash; PeripheralSpec also has the board whose flash does not.    *)
(***************************************************************************)
EXTENDS Integers, Sequences, FiniteSets, TLC

\* ------------------------------------------------------------------------
\* Program constants
\* ------------------------------------------------------------------------
CATCFG_T_CYCLE == 360
CATCFG_T_CYCLE_TEST == 30
CATCFG_T_CYCLE_INITIAL == 30
CATCFG_INTERVAL_COUNT_INITIAL == 10
CATCFG_T_REBOOT == 2592000
CATCFG_T_WARMUP == 1
CATCFG_T_SETTLE == 5
CATCFG_T_OVERHEAD == CATCFG_T_WARMUP + CATCFG_T_SETTLE + 4
CATCFG_T_MIN == CATCFG_T_OVERHEAD
CATCFG_T_MAX == IF CATCFG_T_CYCLE < 60 * 60 THEN 60 * 60 ELSE CATCFG_T_CYCLE
CATCFG_INTERVAL_COUNT == 30
RndBias == 32768

\* ------------------------------------------------------------------------
\* Bounds of the model
\* ------------------------------------------------------------------------
\* longest downlink payload delivered to receiveMessage
MaxMsgLen == 4
\* highest port number a downlink arrives on
MaxPort == 2
\* largest repeat-count byte sent in a downlink
MaxCountByte == 2

\* intervals (seconds) that downlinks ask for: around T_MIN and T_MAX
DownlinkIntervals == {5, 10, 30, 3600, 3601}
\* intervals that are also sent with a repeat-count byte
CountedIntervals == {3600, 3601}
\* draws of os_getRndU2() at boot: both ends of the 16-bit range
RndDraws == {0, 65535}

\* the operating flags the sketch reads
OPERATING_FLAGS ==
    {"fUnattended", "fManufacturingTest", "fDisableDeepSleep",
     "fQuickLightSleep", "fDeepSleepTest"}

VARIABLES
    pc,                 \* "poweron" / "reset": before setup(); "running": after
    operatingFlags,     \* gCatena.GetOperatingFlags(), as a set of flags
    lorawanShutdown,    \* gLoRaWAN.Shutdown() has been called
    gTxCycle,           \* the cycle time to use
    gTxCycleCount,      \* remaining before we reset to default
    gRebootMs,          \* reboot deadline (units of 1000 ms)
    sensorJob,          \* the one LMIC job: callback armed and its delay
    txPending,          \* SendBuffer called, completion not yet delivered
    halted,             \* inside gCatena.Sleep(n): 0 when awake, else n
    g_fPrintedSleeping, \* have we printed the sleep info?
    lastLog,            \* the last diagnostic line printed
    sample,             \* what fillBuffer reads: fProximity and the sensor values
    txBuffer,           \* TxBuffer_t b as fillBuffer leaves it (bytes 0..n-1)
    ttnIn,              \* tInput of the TTN decoder: bytes and fPort
    decoded,            \* what Decoder returned for ttnIn
    flashFitted,        \* hardware: the flash answers gFlash.begin()
    fFlash,             \* the flash-present flag setup_flash sets
    peripherals         \* the interfaces that are begun: Serial, Wire, SPI, SPI2

timing == <<gTxCycle, gTxCycleCount>>
sched == <<sensorJob, txPending, halted>>
\* the message path: sensor values, uplink buffer, decoder input and output
codec == <<sample, txBuffer, ttnIn, decoded>>
\* the flash and the interfaces deep sleep shuts down
hw == <<flashFitted, fFlash, peripherals>>
vars == <<pc, operatingFlags, lorawanShutdown,
          gTxCycle, gTxCycleCount, gRebootMs, sensorJob,
          txPending, halted, g_fPrintedSleeping, lastLog,
          sample, txBuffer, ttnIn, decoded,
          flashFitted, fFlash, peripherals>>

\* ------------------------------------------------------------------------
\* Helpers
\* ------------------------------------------------------------------------
NoJob == [fn |-> "none", delay |-> 0, unit |-> "sec"]

\* os_setTimedCallback(&sensorJob, os_getTime() + delay, fn): the slot holds
\* exactly one callback; arming replaces what was there.
os_setTimedCallback(fn, delay, unit) == [fn |-> fn, delay |-> delay, unit |-> unit]

\* variant: the overhead is subtracted without the test for short cycles
CATCFG_GetInterval_unguarded(tCycle) ==
    tCycle - CATCFG_T_OVERHEAD

CATCFG_GetInterval(tCycle) ==
    IF tCycle < CATCFG_T_OVERHEAD + 1 THEN 1 ELSE tCycle - CATCFG_T_OVERHEAD

\* setTxCycleTime: stores both values and prints one of two lines
setTxCycleTime(txCycle, txCount) ==
    [gTxCycle |-> txCycle,
     gTxCycleCount |-> txCount,
     log |-> IF txCount > 0 THEN "message cycle time for messages"
                            ELSE "message cycle time indefinitely"]

\* variant: the host-terminal test is missing (as in a build without USBCON)
checkDeepSleep_noDtr(flags, fDtr) ==
    IF "fDeepSleepTest" \in flags THEN TRUE
    ELSE IF "fDisableDeepSleep" \in flags THEN FALSE
    ELSE IF "fUnattended" \in flags THEN TRUE
    ELSE FALSE

checkDeepSleep(flags, fDtr) ==
    IF "fDeepSleepTest" \in flags THEN TRUE
    ELSE IF fDtr THEN FALSE
    ELSE IF "fDisableDeepSleep" \in flags THEN FALSE
    ELSE IF "fUnattended" \in flags THEN TRUE
    ELSE FALSE

\* variant: every non-zero count is decremented, so a count of one runs out
\* without the reset to the default interval
updateSleepCounters_noReset(cycle, count) ==
    IF count > 0 THEN [gTxCycle |-> cycle, gTxCycleCount |-> count - 1, reset |-> FALSE]
    ELSE [gTxCycle |-> cycle, gTxCycleCount |-> count, reset |-> FALSE]

\* variant: a count of zero is treated like a count of one
updateSleepCounters_zeroResets(cycle, count) ==
    IF count > 1 THEN [gTxCycle |-> cycle, gTxCycleCount |-> count - 1, reset |-> FALSE]
    ELSE [gTxCycle |-> CATCFG_T_CYCLE, gTxCycleCount |-> 0, reset |-> TRUE]

\* updateSleepCounters: the new <<gTxCycle, gTxCycleCount>> and whether the
\* reset line is printed
updateSleepCounters(cycle, count) ==
    IF count > 1 THEN [gTxCycle |-> cycle, gTxCycleCount |-> count - 1, reset |-> FALSE]
    ELSE IF count = 1 THEN [gTxCycle |-> CATCFG_T_CYCLE, gTxCycleCount |-> 0, reset |-> TRUE]
    ELSE [gTxCycle |-> cycle, gTxCycleCount |-> count, reset |-> FALSE]

\* the values of millis() that the deadline comparison distinguishes
Instants(deadline) == {0, deadline, deadline + 1}

\* a downlink payload of n bytes: interval (big-endian), count, then zeros
Payload(interval, countByte, n) ==
    [i \in 1..n |-> IF i = 1 THEN interval \div 256
                    ELSE IF i = 2 THEN interval % 256
                    ELSE IF i = 3 THEN countByte
                    ELSE 0]

\* the downlinks delivered to receiveMessage: on port 1 every interval in
\* two bytes, some with each count byte, and the lengths other than 2 and 3;
\* on the other ports a message that would be a command on port 1
Downlinks ==
    {[port |-> 1, pMessage |-> Payload(v, 0, 2)] : v \in DownlinkIntervals}
    \cup {[port |-> 1, pMessage |-> Payload(v, c, 3)] :
                v \in CountedIntervals, c \in 0..MaxCountByte}
    \cup {[port |-> 1, pMessage |-> Payload(30, 0, n)] : n \in (0..MaxMsgLen) \ {2, 3}}
    \cup {[port |-> p, pMessage |-> Payload(30, 0, 2)] : p \in (0..MaxPort) \ {1}}

\* ------------------------------------------------------------------------
\* The uplink message: fillBuffer and the TTN decoder
\* ------------------------------------------------------------------------
kMessageFormat == 47

\* enum class FlagsSensorPort1
FlagVbat == 1
FlagVcc == 2
FlagBoot == 4
FlagSarCh0 == 8
FlagSarCh1 == 16
FlagSarCh2 == 32
FlagAmplitude == 64

\* raw voltages (volts * 4096, as int16) the unit reads for vBat
VbatRaws == {-32768, -1, 13517, 32767}
\* raw voltages the unit reads for vBus
VbusRaws == {0, 20480}
\* SAR counts read for channel 0, channel 1 and channel 2
SarCh0Counts == {0, 120, 65535}
SarCh1Counts == {80, 32768}
SarCh2Counts == {40, 256}
\* Hall-effect amplitudes read
Amplitudes == {-32768, -15, 32767}

\* power of two by repeated doubling
RECURSIVE Pow2(_)
Pow2(k) == IF k = 0 THEN 1 ELSE 2 * Pow2(k - 1)

\* bit k of the byte (or 16-bit word) n is set: n & (1 << k)
BitSet(n, k) == (n \div Pow2(k)) % 2 = 1

\* a | b on flag bytes
RECURSIVE BitOrFrom(_, _, _)
BitOrFrom(a, b, k) ==
    IF k = 8 THEN 0
    ELSE (IF BitSet(a, k) \/ BitSet(b, k) THEN Pow2(k) ELSE 0) + BitOrFrom(a, b, k + 1)
BitOr(a, b) == BitOrFrom(a, b, 0)

\* two bytes, most significant first, of a 16-bit word
put2(u) == <<u \div 256, u % 256>>

\* TxBuffer_t::put2uf for a uint16 count
put2uf(count) == put2(count)

\* TxBuffer_t::put2sf for an int16: two's complement
put2sf(i) == put2(i % 65536)

\* TxBuffer_t::putV for a voltage given in counts of 1/4096 V
putV(vRaw) == put2sf(vRaw)

\* the sensor values one call of fillBuffer reads
Samples ==
    {[fProximity |-> FALSE, vBat |-> vb, vBus |-> vu,
      sarCh0 |-> 0, sarCh1 |-> 0, sarCh2 |-> 0, amplitude |-> 0] :
            vb \in VbatRaws, vu \in VbusRaws}
    \cup {[fProximity |-> TRUE, vBat |-> vb, vBus |-> vu,
           sarCh0 |-> c0, sarCh1 |-> c1, sarCh2 |-> c2, amplitude |-> a] :
            vb \in VbatRaws, vu \in VbusRaws, c0 \in SarCh0Counts,
            c1 \in SarCh1Counts, c2 \in SarCh2Counts, a \in Amplitudes}

\* nothing read yet
NoSample ==
    [fProximity |-> FALSE, vBat |-> 0, vBus |-> 0,
     sarCh0 |-> 0, sarCh1 |-> 0, sarCh2 |-> 0, amplitude |-> 0]

\* variant: the flag for the amplitude is never set
fillBuffer_noAmplitudeFlag(s) ==
    LET b0 == <<kMessageFormat, 0>>
        b1 == b0 \o putV(s.vBat) \o putV(s.vBus)
        flag2 == BitOr(BitOr(0, FlagVbat), FlagVcc)
        b3 == IF s.fProximity
              THEN b1 \o put2uf(s.sarCh0) \o put2uf(s.sarCh1) \o put2uf(s.sarCh2)
                      \o put2sf(s.amplitude)
              ELSE b1
        flag3 == IF s.fProximity
                 THEN BitOr(BitOr(BitOr(flag2, FlagSarCh0), FlagSarCh1), FlagSarCh2)
                 ELSE flag2
    IN [b3 EXCEPT ![2] = flag3 % 256]

\* fillBuffer(b): format byte, flags placeholder, the two voltages, then the
\* four IQS620A fields when fProximity; the flags byte is stored last
fillBuffer(s) ==
    LET b0 == <<kMessageFormat, 0>>
        b1 == b0 \o putV(s.vBat)
        flag1 == BitOr(0, FlagVbat)
        b2 == b1 \o putV(s.vBus)
        flag2 == BitOr(flag1, FlagVcc)
        b3 == IF s.fProximity
              THEN b2 \o put2uf(s.sarCh0) \o put2uf(s.sarCh1) \o put2uf(s.sarCh2)
                      \o put2sf(s.amplitude)
              ELSE b2
        flag3 == IF s.fProximity
                 THEN BitOr(BitOr(BitOr(BitOr(flag2, FlagSarCh0), FlagSarCh1),
                                  FlagSarCh2), FlagAmplitude)
                 ELSE flag2
    IN [b3 EXCEPT ![2] = flag3 % 256]

\* JavaScript values the decoder produces: a number v/div, NaN, undefined;
\* Absent marks a property the decoder did not set
Number(v, div) == [t |-> "number", v |-> v, div |-> div]
NaN == [t |-> "NaN", v |-> 0, div |-> 1]
Undefined == [t |-> "undefined", v |-> 0, div |-> 1]
Absent == [t |-> "absent", v |-> 0, div |-> 1]

\* bytes[i] (i counts from 0): undefined past the end of the array
ByteAt(bytes, i) ==
    IF i < Len(bytes) THEN Number(bytes[i + 1], 1) ELSE Undefined

\* DecodeU16: (bytes[i] << 8) + bytes[i + 1]; the sum with undefined is NaN
DecodeU16(bytes, i) ==
    IF i + 1 < Len(bytes)
    THEN Number(bytes[i + 1] * 256 + bytes[i + 2], 1)
    ELSE NaN

\* variant: the word is left as an unsigned value
DecodeI16_unsigned(bytes, i) ==
    DecodeU16(bytes, i)

\* DecodeI16: a word with bit 15 set is lowered by 0x10000; NaN & 0x8000 is 0
DecodeI16(bytes, i) ==
    LET Vraw == DecodeU16(bytes, i)
    IN IF Vraw.t = "number" /\ BitSet(Vraw.v, 15)
       THEN Number(Vraw.v - 65536, 1)
       ELSE Vraw

\* DecodeV: DecodeI16(Parse) / 4096.0, kept as the fraction v/4096
DecodeV(bytes, i) ==
    LET r == DecodeI16(bytes, i)
    IN IF r.t = "number" THEN Number(r.v, 4096) ELSE r

\* flags & mask, as the test the decoder makes: undefined & mask is 0
FlagTest(flags, k) == flags.t = "number" /\ BitSet(flags.v, k)

\* Decoder returned null
Null ==
    [result |-> "null", vBat |-> Absent, vBus |-> Absent, boot |-> Absent,
     sarCh0 |-> Absent, sarCh1 |-> Absent, sarCh2 |-> Absent,
     amplitude |-> Absent, i |-> 0]

\* Decoder has not run
NotDecoded == [Null EXCEPT !.result = "none"]

\* variant: the boot counter is taken for a two-byte field
Decoder_bootTwoBytes(bytes, port) ==
    IF port # 1 THEN Null
    ELSE IF ByteAt(bytes, 0) # Number(kMessageFormat, 1) THEN Null
    ELSE
    LET flags == ByteAt(bytes, 1)
        i0 == 2
        i1 == IF FlagTest(flags, 0) THEN i0 + 2 ELSE i0
        i2 == IF FlagTest(flags, 1) THEN i1 + 2 ELSE i1
        i3 == IF FlagTest(flags, 2) THEN i2 + 2 ELSE i2
        i4 == IF FlagTest(flags, 3) THEN i3 + 2 ELSE i3
        i5 == IF FlagTest(flags, 4) THEN i4 + 2 ELSE i4
        i6 == IF FlagTest(flags, 5) THEN i5 + 2 ELSE i5
        i7 == IF FlagTest(flags, 6) THEN i6 + 2 ELSE i6
    IN [result |-> "object",
        vBat |-> IF FlagTest(flags, 0) THEN DecodeV(bytes, i0) ELSE Absent,
        vBus |-> IF FlagTest(flags, 1) THEN DecodeV(bytes, i1) ELSE Absent,
        boot |-> IF FlagTest(flags, 2) THEN ByteAt(bytes, i2) ELSE Absent,
        sarCh0 |-> IF FlagTest(flags, 3) THEN DecodeU16(bytes, i3) ELSE Absent,
        sarCh1 |-> IF FlagTest(flags, 4) THEN DecodeU16(bytes, i4) ELSE Absent,
        sarCh2 |-> IF FlagTest(flags, 5) THEN DecodeU16(bytes, i5) ELSE Absent,
        amplitude |-> IF FlagTest(flags, 6) THEN DecodeI16(bytes, i6) ELSE Absent,
        i |-> i7]

\* Decoder(bytes, port): null unless port 1 and format 0x2f; then the flags
\* byte and, for each set bit 0..6 in turn, the field at the cursor Parse.i
\* (i0..i7 are the values Parse.i takes; i is its value at the return)
Decoder(bytes, port) ==
    IF port # 1 THEN Null
    ELSE IF ByteAt(bytes, 0) # Number(kMessageFormat, 1) THEN Null
    ELSE
    LET flags == ByteAt(bytes, 1)
        i0 == 2
        i1 == IF FlagTest(flags, 0) THEN i0 + 2 ELSE i0
        i2 == IF FlagTest(flags, 1) THEN i1 + 2 ELSE i1
        i3 == IF FlagTest(flags, 2) THEN i2 + 1 ELSE i2
        i4 == IF FlagTest(flags, 3) THEN i3 + 2 ELSE i3
        i5 == IF FlagTest(flags, 4) THEN i4 + 2 ELSE i4
        i6 == IF FlagTest(flags, 5) THEN i5 + 2 ELSE i5
        i7 == IF FlagTest(flags, 6) THEN i6 + 2 ELSE i6
    IN [result |-> "object",
        vBat |-> IF FlagTest(flags, 0) THEN DecodeV(bytes, i0) ELSE Absent,
        vBus |-> IF FlagTest(flags, 1) THEN DecodeV(bytes, i1) ELSE Absent,
        boot |-> IF FlagTest(flags, 2) THEN ByteAt(bytes, i2) ELSE Absent,
        sarCh0 |-> IF FlagTest(flags, 3) THEN DecodeU16(bytes, i3) ELSE Absent,
        sarCh1 |-> IF FlagTest(flags, 4) THEN DecodeU16(bytes, i4) ELSE Absent,
        sarCh2 |-> IF FlagTest(flags, 5) THEN DecodeU16(bytes, i5) ELSE Absent,
        amplitude |-> IF FlagTest(flags, 6) THEN DecodeI16(bytes, i6) ELSE Absent,
        i |-> i7]

\* flags bytes put in place of the one fillBuffer stored
FlagBytes == 0..255

\* what reaches the decoder for an uplink b: b itself, b cut short at every
\* length, b on another port, b with another format byte, and b with each
\* other flags byte over the same data bytes
TtnInputs(b) ==
    {[bytes |-> SubSeq(b, 1, n), fPort |-> 1] : n \in 0..Len(b)}
    \cup {[bytes |-> b, fPort |-> p] : p \in 0..MaxPort}
    \cup {[bytes |-> [b EXCEPT ![1] = kMessageFormat - 1], fPort |-> 1]}
    \cup {[bytes |-> [b EXCEPT ![2] = f], fPort |-> 1] : f \in FlagBytes}

\* ------------------------------------------------------------------------
\* Initial state: after reset, before setup(); globals are zero-initialised
\* ------------------------------------------------------------------------
InitAnyBoard ==
    /\ pc = "poweron"
    /\ operatingFlags \in SUBSET OPERATING_FLAGS
    /\ lorawanShutdown = FALSE
    /\ gTxCycle = 0
    /\ gTxCycleCount = 0
    /\ gRebootMs = 0
    /\ sensorJob = NoJob
    /\ txPending = FALSE
    /\ halted = 0
    /\ g_fPrintedSleeping = FALSE
    /\ lastLog = "none"
    /\ sample = NoSample
    /\ txBuffer = <<>>
    /\ ttnIn = [bytes |-> <<>>, fPort |-> 0]
    /\ decoded = NotDecoded
    /\ flashFitted \in BOOLEAN
    /\ fFlash = FALSE
    /\ peripherals = {}

\* the board as built: the flash is fitted and answers
Init == InitAnyBoard /\ flashFitted = TRUE

\* ------------------------------------------------------------------------
\* Actions
\* ------------------------------------------------------------------------

\* the interfaces setup() leaves begun: Serial (gCatena.begin), Wire
\* (setup_iqs), SPI (the radio), and SPI2 when the flash answered on it;
\* setup_flash ends SPI2 when it did not
setupPeripherals(found) ==
    {"Serial", "Wire", "SPI"} \cup (IF found THEN {"SPI2"} ELSE {})

\* deepSleepPrepare: Serial.end, Wire.end, SPI.end, and gSPI2.end if fFlash
deepSleepPrepare(active, flash) ==
    (active \ {"Serial", "Wire", "SPI"}) \ (IF flash THEN {"SPI2"} ELSE {})

\* variant: SPI2 is not begun again
deepSleepRecovery_noSPI2(active, flash) ==
    active \cup {"Serial", "Wire", "SPI"}

\* deepSleepRecovery: Serial.begin, Wire.begin, SPI.begin, and gSPI2.begin
\* if fFlash
deepSleepRecovery(active, flash) ==
    (active \cup {"Serial", "Wire", "SPI"}) \cup (IF flash THEN {"SPI2"} ELSE {})

\* the largest value of int (32 bits on this MCU)
INT_MAX == 2147483647

\* sec * 1000, computed in int, is beyond INT_MAX
MulOverflowsInt(sec) == sec > INT_MAX \div 1000

\* variant: the product is formed in uint32_t, where it fits for every draw
rebootDeadlines_unsignedProduct(r) ==
    {CATCFG_T_REBOOT + r - RndBias}

\* setup_uplink: gRebootMs = (CATCFG_T_REBOOT + os_getRndU2() - 32768) * 1000.
\* The operands are int (an enumerator, a promoted u2_t, int literals), so
\* the product is formed in int before it is stored in the uint32_t.  Where
\* it is beyond INT_MAX the behaviour is undefined: a build whose multiply
\* wraps stores the exact product (it is below 2^32), another build may
\* store something else, for which the saturated INT_MAX stands.  The result
\* is the set of deadlines, in units of 1000 ms, that can be stored.
rebootDeadlines(r) ==
    LET sec == CATCFG_T_REBOOT + r - RndBias
    IN IF MulOverflowsInt(sec) THEN {sec, INT_MAX \div 1000} ELSE {sec}

\* variant: the manufacturing-test flag is not consulted
setupSends_noMfgTest(flags, provisioned) ==
    provisioned

\* setup_uplink: the first uplink is started when the unit is not in
\* manufacturing test and the transport is provisioned
setupSends(flags, provisioned) ==
    "fManufacturingTest" \notin flags /\ provisioned

\* setup(): setup_platform sets the initial cycle, setup_uplink draws the
\* reboot deadline and sends the first uplink when provisioned and not in
\* manufacturing test.
Setup(r, provisioned) ==
    /\ pc \in {"poweron", "reset"}
    /\ pc' = "running"
    /\ LET t == setTxCycleTime(CATCFG_T_CYCLE_INITIAL, CATCFG_INTERVAL_COUNT_INITIAL)
           send == setupSends(operatingFlags, provisioned)
       IN /\ gTxCycle' = t.gTxCycle
          /\ gTxCycleCount' = t.gTxCycleCount
          /\ txPending' = send
          /\ lastLog' = IF "fManufacturingTest" \in operatingFlags THEN "setup"
                        ELSE IF ~provisioned THEN "LoRaWAN not provisioned yet"
                        ELSE "fillBuffer"
    /\ gRebootMs' \in rebootDeadlines(r)
    /\ lorawanShutdown' = FALSE
    /\ sensorJob' = NoJob
    /\ halted' = 0
    /\ g_fPrintedSleeping' = FALSE
    /\ fFlash' = flashFitted
    /\ peripherals' = setupPeripherals(flashFitted)
    /\ UNCHANGED <<operatingFlags, codec, flashFitted>>

\* loop() in manufacturing test: fillBuffer on a local buffer, which prints
\* the readings, and nothing is sent; in the other modes loop() only polls
loop ==
    /\ pc = "running" /\ halted = 0
    /\ "fManufacturingTest" \in operatingFlags
    /\ lastLog' = "fillBuffer"
    /\ UNCHANGED <<codec, hw, pc, operatingFlags, lorawanShutdown, timing, gRebootMs, sched,
                   g_fPrintedSleeping>>

\* variant: pFn is never replaced
sendDonePFn_alwaysSettle(fStatus, provisioned) ==
    "settleDoneCb"

\* variant: every failure is taken for a provisioning failure
sendDonePFn_anyFailure(fStatus, provisioned) ==
    IF ~fStatus THEN "txNotProvisionedCb" ELSE "settleDoneCb"

\* sendBufferDoneCb: the callback pFn that gets armed
sendDonePFn(fStatus, provisioned) ==
    IF ~fStatus /\ ~provisioned THEN "txNotProvisionedCb" ELSE "settleDoneCb"

\* sendBufferDoneCb(pContext, fStatus)
sendBufferDoneCb(fStatus, provisioned) ==
    /\ pc = "running" /\ txPending /\ halted = 0
    /\ txPending' = FALSE
    /\ LET notProv == ~fStatus /\ ~provisioned
       IN /\ sensorJob' = os_setTimedCallback(sendDonePFn(fStatus, provisioned),
                                              CATCFG_T_SETTLE, "sec")
          /\ lorawanShutdown' = (lorawanShutdown \/ notProv)
          /\ lastLog' = IF ~fStatus /\ provisioned THEN "send buffer failed" ELSE lastLog
    /\ UNCHANGED <<codec, hw, pc, operatingFlags, timing, gRebootMs, halted, g_fPrintedSleeping>>

\* txNotProvisionedCb: the job fires and nothing is armed again
txNotProvisionedCb ==
    /\ pc = "running" /\ halted = 0
    /\ sensorJob.fn = "txNotProvisionedCb"
    /\ sensorJob' = NoJob
    /\ lorawanShutdown' = TRUE
    /\ lastLog' = "LoRaWAN not provisioned yet"
    /\ UNCHANGED <<codec, hw, pc, operatingFlags, timing, gRebootMs, txPending, halted,
                   g_fPrintedSleeping>>

\* NVIC_SystemReset(): RAM is reinitialised, the configuration store is kept
NVIC_SystemReset ==
    /\ pc' = "reset"
    /\ lorawanShutdown' = FALSE
    /\ gTxCycle' = 0
    /\ gTxCycleCount' = 0
    /\ gRebootMs' = 0
    /\ sensorJob' = NoJob
    /\ txPending' = FALSE
    /\ halted' = 0
    /\ g_fPrintedSleeping' = FALSE
    /\ lastLog' = "none"
    /\ fFlash' = FALSE
    /\ peripherals' = {}
    /\ UNCHANGED <<operatingFlags, codec, flashFitted>>

\* variant: the wake-up is also armed on sensorJob before the CPU halts
doDeepSleep_armsTimer ==
    /\ halted' = CATCFG_GetInterval(
                    IF "fDeepSleepTest" \in operatingFlags
                    THEN CATCFG_T_CYCLE_TEST ELSE gTxCycle')
    /\ sensorJob' = os_setTimedCallback("sleepDoneCb", CATCFG_GetInterval(gTxCycle'), "sec")
    /\ peripherals' = deepSleepPrepare(peripherals, fFlash)

\* doDeepSleep up to gCatena.Sleep(sleepInterval): the CPU halts
doDeepSleep ==
    /\ halted' = CATCFG_GetInterval(
                    IF "fDeepSleepTest" \in operatingFlags
                    THEN CATCFG_T_CYCLE_TEST ELSE gTxCycle')
    /\ sensorJob' = NoJob
    /\ peripherals' = deepSleepPrepare(peripherals, fFlash)

\* variant: the callback armed for the end of the sleep is the warm-up's
doLightSleep_armsWarmupDone ==
    /\ sensorJob' =
          IF "fQuickLightSleep" \in operatingFlags
          THEN os_setTimedCallback("warmupDoneCb", 1, "tick")
          ELSE os_setTimedCallback("warmupDoneCb", CATCFG_GetInterval(gTxCycle'), "sec")
    /\ halted' = 0
    /\ UNCHANGED peripherals

\* variant: the interval is the one in force before the counters were updated
doLightSleep_staleInterval ==
    /\ sensorJob' =
          IF "fQuickLightSleep" \in operatingFlags
          THEN os_setTimedCallback("sleepDoneCb", 1, "tick")
          ELSE os_setTimedCallback("sleepDoneCb", CATCFG_GetInterval(gTxCycle), "sec")
    /\ halted' = 0
    /\ UNCHANGED peripherals

\* doLightSleep: arms sleepDoneCb after the interval (one tick when quick)
doLightSleep ==
    /\ sensorJob' =
          IF "fQuickLightSleep" \in operatingFlags
          THEN os_setTimedCallback("sleepDoneCb", 1, "tick")
          ELSE os_setTimedCallback("sleepDoneCb", CATCFG_GetInterval(gTxCycle'), "sec")
    /\ halted' = 0
    /\ UNCHANGED peripherals

\* variant: the deadline instant itself already reboots
rebootDue_atDeadline(millis, deadline) ==
    millis >= deadline

\* settleDoneCb: uint32_t(millis()) > gRebootMs
rebootDue(millis, deadline) ==
    millis > deadline

\* settleDoneCb: reboot when past the deadline, else count and sleep
settleDoneCb(millis, dtr) ==
    /\ pc = "running" /\ halted = 0
    /\ sensorJob.fn = "settleDoneCb"
    /\ IF rebootDue(millis, gRebootMs)
       THEN NVIC_SystemReset
       ELSE LET fDeepSleep == checkDeepSleep(operatingFlags, dtr)
                c == updateSleepCounters(gTxCycle, gTxCycleCount)
            IN /\ g_fPrintedSleeping' = TRUE
               /\ gTxCycle' = c.gTxCycle
               /\ gTxCycleCount' = c.gTxCycleCount
               /\ lastLog' = IF c.reset THEN "resetting tx cycle to default"
                             ELSE IF g_fPrintedSleeping THEN lastLog
                             ELSE IF fDeepSleep THEN "Starting deep sleep"
                             ELSE "using light sleep"
               /\ IF fDeepSleep THEN doDeepSleep ELSE doLightSleep
               /\ UNCHANGED <<codec, flashFitted, fFlash, pc, operatingFlags,
                              lorawanShutdown, gRebootMs, txPending>>

\* sleepDoneCb: arms the warm-up
sleepDoneCb ==
    /\ sensorJob' = os_setTimedCallback("warmupDoneCb", CATCFG_T_WARMUP, "sec")

\* gCatena.Sleep returns: doDeepSleep runs deepSleepRecovery and sleepDoneCb
deepSleepWake ==
    /\ pc = "running" /\ halted > 0
    /\ halted' = 0
    /\ peripherals' = deepSleepRecovery(peripherals, fFlash)
    /\ sleepDoneCb
    /\ UNCHANGED <<codec, flashFitted, fFlash, pc, operatingFlags, lorawanShutdown,
                   timing, gRebootMs, txPending, g_fPrintedSleeping, lastLog>>

\* the light-sleep timer fires
lightSleepWake ==
    /\ pc = "running" /\ halted = 0
    /\ sensorJob.fn = "sleepDoneCb"
    /\ sleepDoneCb
    /\ UNCHANGED <<codec, hw, pc, operatingFlags, lorawanShutdown, timing, gRebootMs, txPending,
                   halted, g_fPrintedSleeping, lastLog>>

\* startSendingUplink: fillBuffer, then gLoRaWAN.SendBuffer
startSendingUplink ==
    /\ txPending' = TRUE
    /\ lastLog' = "fillBuffer"

\* variant: the warm-up timer is armed again when it fires
warmupDoneCb_rearms ==
    /\ pc = "running" /\ halted = 0
    /\ sensorJob.fn = "warmupDoneCb"
    /\ sensorJob' = os_setTimedCallback("warmupDoneCb", CATCFG_T_WARMUP, "sec")
    /\ startSendingUplink
    /\ UNCHANGED <<codec, hw, pc, operatingFlags, lorawanShutdown, timing, gRebootMs, halted,
                   g_fPrintedSleeping>>

\* warmupDoneCb
warmupDoneCb ==
    /\ pc = "running" /\ halted = 0
    /\ sensorJob.fn = "warmupDoneCb"
    /\ sensorJob' = NoJob
    /\ startSendingUplink
    /\ UNCHANGED <<codec, hw, pc, operatingFlags, lorawanShutdown, timing, gRebootMs, halted,
                   g_fPrintedSleeping>>

\* variant: the upper length limit is missing
rxIsCommand_noMax(port, nMessage) ==
    port = 1 /\ 2 <= nMessage

\* receiveMessage: the port/length test that lets a message through
rxIsCommand(port, nMessage) ==
    port = 1 /\ 2 <= nMessage /\ nMessage <= 3

\* variant: the two bytes are taken low byte first
rxTxCycle_littleEndian(pMessage) ==
    pMessage[2] * 256 + pMessage[1]

\* receiveMessage: txCycle = (pMessage[0] << 8) | pMessage[1]
rxTxCycle(pMessage) ==
    pMessage[1] * 256 + pMessage[2]

\* variant: the lower limit itself is refused
rxOutOfRange_strictMin(txCycle) ==
    txCycle <= CATCFG_T_MIN \/ txCycle > CATCFG_T_MAX

\* variant: the upper limit is not tested
rxOutOfRange_noMax(txCycle) ==
    txCycle < CATCFG_T_MIN

\* receiveMessage: the range test on txCycle
rxOutOfRange(txCycle) ==
    txCycle < CATCFG_T_MIN \/ txCycle > CATCFG_T_MAX

\* receiveMessage: byte [2], if present, is the repeat count
rxTxCount(pMessage) ==
    IF Len(pMessage) >= 3 THEN pMessage[3] ELSE CATCFG_INTERVAL_COUNT

\* what receiveMessage decides for port and pMessage[0..nMessage-1]
rxParse(port, pMessage) ==
    IF port = 0 THEN [ok |-> FALSE, log |-> "MAC message"]
    ELSE IF ~rxIsCommand(port, Len(pMessage))
         THEN [ok |-> FALSE, log |-> "invalid message port/length"]
    ELSE IF rxOutOfRange(rxTxCycle(pMessage))
         THEN [ok |-> FALSE, log |-> "tx cycle time out of range"]
    ELSE [ok |-> TRUE, txCycle |-> rxTxCycle(pMessage), txCount |-> rxTxCount(pMessage)]

\* variant: an accepted interval is applied to a pending light-sleep timer
receiveMessage_rearmsSleep(port, pMessage) ==
    /\ pc = "running" /\ halted = 0
    /\ LET r == rxParse(port, pMessage)
       IN IF r.ok
          THEN LET t == setTxCycleTime(r.txCycle, r.txCount)
               IN /\ gTxCycle' = t.gTxCycle
                  /\ gTxCycleCount' = t.gTxCycleCount
                  /\ lastLog' = t.log
                  /\ sensorJob' =
                        IF sensorJob.fn = "sleepDoneCb"
                        THEN os_setTimedCallback("sleepDoneCb",
                                                 CATCFG_GetInterval(t.gTxCycle), "sec")
                        ELSE sensorJob
          ELSE /\ lastLog' = r.log
               /\ UNCHANGED <<timing, sensorJob>>
    /\ UNCHANGED <<codec, hw, pc, operatingFlags, lorawanShutdown, gRebootMs, txPending,
                   halted, g_fPrintedSleeping>>

\* receiveMessage(pContext, port, pMessage, nMessage)
receiveMessage(port, pMessage) ==
    /\ pc = "running" /\ halted = 0
    /\ LET r == rxParse(port, pMessage)
       IN IF r.ok
          THEN LET t == setTxCycleTime(r.txCycle, r.txCount)
               IN /\ gTxCycle' = t.gTxCycle
                  /\ gTxCycleCount' = t.gTxCycleCount
                  /\ lastLog' = t.log
          ELSE /\ lastLog' = r.log
               /\ UNCHANGED timing
    /\ UNCHANGED <<codec, hw, pc, operatingFlags, lorawanShutdown, gRebootMs, sched,
                   g_fPrintedSleeping>>

Boot == \E r \in RndDraws, provisioned \in BOOLEAN : Setup(r, provisioned)

SendDone == \E fStatus \in BOOLEAN, provisioned \in BOOLEAN :
                sendBufferDoneCb(fStatus, provisioned)

SettleDone == \E millis \in Instants(gRebootMs), dtr \in BOOLEAN :
                settleDoneCb(millis, dtr)

Downlink == \E d \in Downlinks : receiveMessage(d.port, d.pMessage)

Next ==
    \/ Boot
    \/ SendDone
    \/ txNotProvisionedCb
    \/ SettleDone
    \/ deepSleepWake
    \/ lightSleepWake
    \/ warmupDoneCb
    \/ Downlink
    \/ loop

Spec == Init /\ [][Next]_vars

\* the same program on a unit with no operating flag set, on an unattended
\* unit and on a unit in manufacturing test, for the properties of the
\* downlink handler, which reads no operating flag
InitDownlink ==
    Init /\ operatingFlags \in {{}, {"fUnattended"}, {"fManufacturingTest"}}
DownlinkSpec == InitDownlink /\ [][Next]_vars

\* the same program on boards with and without a working flash, on units
\* that deep-sleep (unattended, deep-sleep test), that light-sleep (no flag)
\* and in manufacturing test, for the handling of the interfaces
InitPeripheral ==
    /\ InitAnyBoard
    /\ operatingFlags \in {{}, {"fUnattended"}, {"fDeepSleepTest"},
                           {"fUnattended", "fManufacturingTest"}}
PeripheralSpec == InitPeripheral /\ [][Next]_vars

\* armed timers fire, the transport completes every send, gCatena.Sleep
\* returns, and setup() runs after a reset
FairSpec ==
    /\ Spec
    /\ WF_vars(Boot)
    /\ WF_vars(SendDone)
    /\ WF_vars(txNotProvisionedCb)
    /\ WF_vars(SettleDone)
    /\ WF_vars(deepSleepWake)
    /\ WF_vars(lightSleepWake)
    /\ WF_vars(warmupDoneCb)

\* the settle timer fires before the reboot deadline
SettleBeforeDeadline ==
    \E millis \in {m \in Instants(gRebootMs) : ~rebootDue(m, gRebootMs)}, dtr \in BOOLEAN :
        settleDoneCb(millis, dtr)

\* the unit left alone: no downlink arrives and every settle expiry comes
\* before the reboot deadline
QuietNext ==
    \/ Boot
    \/ SendDone
    \/ txNotProvisionedCb
    \/ SettleBeforeDeadline
    \/ deepSleepWake
    \/ lightSleepWake
    \/ warmupDoneCb
    \/ loop

\* armed timers fire, the transport completes every send, gCatena.Sleep
\* returns, and setup() runs
QuietSpec ==
    /\ Init /\ [][QuietNext]_vars
    /\ WF_vars(Boot)
    /\ WF_vars(SendDone)
    /\ WF_vars(txNotProvisionedCb)
    /\ WF_vars(SettleBeforeDeadline)
    /\ WF_vars(deepSleepWake)
    /\ WF_vars(lightSleepWake)
    /\ WF_vars(warmupDoneCb)

\* a unit whose first send has completed and which then accepted a downlink
\* with count 0 for an interval anywhere in [T_MIN, T_MAX]: the settle timer
\* is pending, and the sleep that follows is computed from that interval
InitInterval ==
    /\ pc = "running"
    /\ operatingFlags \in {{}, {"fUnattended"}}
    /\ lorawanShutdown = FALSE
    /\ gTxCycle \in CATCFG_T_MIN..CATCFG_T_MAX
    /\ gTxCycleCount = 0
    /\ gRebootMs = CATCFG_T_REBOOT
    /\ sensorJob = os_setTimedCallback("settleDoneCb", CATCFG_T_SETTLE, "sec")
    /\ txPending = FALSE
    /\ halted = 0
    /\ g_fPrintedSleeping = FALSE
    /\ lastLog = "message cycle time indefinitely"
    /\ sample = NoSample
    /\ txBuffer = <<>>
    /\ ttnIn = [bytes |-> <<>>, fPort |-> 0]
    /\ decoded = NotDecoded
    /\ flashFitted = TRUE
    /\ fFlash = TRUE
    /\ peripherals = setupPeripherals(TRUE)

\* the settle expiry, the sleep and the wake-up of that cycle
IntervalNext ==
    \/ SettleBeforeDeadline
    \/ deepSleepWake
    \/ lightSleepWake

IntervalSpec == InitInterval /\ [][IntervalNext]_vars

\* one uplink from the sensor values to the network decoder: fillBuffer
\* builds the message from the values read
BuildUplink ==
    /\ txBuffer = <<>>
    /\ txBuffer' = fillBuffer(sample)
    /\ UNCHANGED <<hw, pc, operatingFlags, lorawanShutdown, timing, gRebootMs, sched,
                   g_fPrintedSleeping, lastLog, sample, ttnIn, decoded>>

\* decodeUplink(tInput): result.data = Decoder(tInput.bytes, tInput.fPort);
\* the network hands each uplink to the decoder once
decodeUplink(tInput) ==
    /\ txBuffer # <<>>
    /\ decoded = NotDecoded
    /\ ttnIn' = tInput
    /\ decoded' = Decoder(tInput.bytes, tInput.fPort)
    /\ UNCHANGED <<hw, pc, operatingFlags, lorawanShutdown, timing, gRebootMs, sched,
                   g_fPrintedSleeping, lastLog, sample, txBuffer>>

NetworkDecode == \E tInput \in TtnInputs(txBuffer) : decodeUplink(tInput)

\* the message path on its own: every set of sensor values is encoded and
\* what the network receives is decoded
CodecInit ==
    /\ pc = "poweron"
    /\ operatingFlags = {}
    /\ lorawanShutdown = FALSE
    /\ gTxCycle = 0
    /\ gTxCycleCount = 0
    /\ gRebootMs = 0
    /\ sensorJob = NoJob
    /\ txPending = FALSE
    /\ halted = 0
    /\ g_fPrintedSleeping = FALSE
    /\ lastLog = "none"
    /\ sample \in Samples
    /\ txBuffer = <<>>
    /\ ttnIn = [bytes |-> <<>>, fPort |-> 0]
    /\ decoded = NotDecoded
    /\ flashFitted = TRUE
    /\ fFlash = FALSE
    /\ peripherals = {}

CodecNext ==
    \/ BuildUplink
    \/ NetworkDecode

CodecSpec == CodecInit /\ [][CodecNext]_vars

\* ------------------------------------------------------------------------
\* Properties
\* ------------------------------------------------------------------------
Booted == pc = "running"
EnteredDeepSleep == halted > 0
EnteredLightSleep == sensorJob.fn = "sleepDoneCb"
CycleTimeLines == {"message cycle time for messages", "message cycle time indefinitely"}

\* the priority table of the sleep policy, as the set of inputs that give Deep
PolicyDeep(fDeepSleepTest, fDebugger, fDisableDeepSleep, fUnattended) ==
    \/ fDeepSleepTest
    \/ ~fDeepSleepTest /\ ~fDebugger /\ ~fDisableDeepSleep /\ fUnattended

\* C1: whenever the settle timer fires without a reboot, the sleep entered is
\* the one the priority table gives for the four inputs deepSleepTest,
\* debugger attached, disableDeepSleep, unattended: Deep when deepSleepTest
\* is set; else Light when a debugger is attached; else Light when
\* disableDeepSleep is set; else Deep when unattended; else Light.
C1_SleepPolicyTable ==
    [][\A m \in Instants(gRebootMs), d \in BOOLEAN :
          (settleDoneCb(m, d) /\ Booted') =>
             LET deep == PolicyDeep("fDeepSleepTest" \in operatingFlags, d,
                                    "fDisableDeepSleep" \in operatingFlags,
                                    "fUnattended" \in operatingFlags)
             IN /\ EnteredDeepSleep' <=> deep
                /\ EnteredLightSleep' <=> ~deep
                /\ checkDeepSleep(operatingFlags, d) <=> deep]_vars

\* C1 witness: an unattended unit without deepSleepTest and without
\* disableDeepSleep is in light sleep, which only an attached debugger gives
C1_Witness ==
    /\ Booted
    /\ "fUnattended" \in operatingFlags
    /\ "fDeepSleepTest" \notin operatingFlags
    /\ "fDisableDeepSleep" \notin operatingFlags
    /\ EnteredLightSleep

\* the interval a payload carries in its first two bytes, big-endian
IntervalOf(pMessage) == 256 * pMessage[1] + pMessage[2]

\* C2: a 2- or 3-byte downlink on port 1 whose big-endian interval is below
\* T_MIN = 10 or above T_MAX = 3600 is rejected (the out-of-range line is
\* printed and the timing is untouched); one whose interval is exactly 10 or
\* exactly 3600 is accepted and that interval is stored.
C2_BoundsValidation ==
    [][\A d \in Downlinks :
          (d.port = 1 /\ Len(d.pMessage) \in {2, 3}
                /\ receiveMessage(d.port, d.pMessage)) =>
             LET v == IntervalOf(d.pMessage)
             IN /\ (v < 10 \/ v > 3600) =>
                      (lastLog' = "tx cycle time out of range" /\ UNCHANGED timing)
                /\ (v = 10 \/ v = 3600) =>
                      (lastLog' \in CycleTimeLines /\ gTxCycle' = v)]_vars

\* C2 witness: the lower limit was accepted and a later downlink was rejected
\* as out of range
C2_Witness ==
    /\ Booted
    /\ gTxCycle = 10
    /\ lastLog = "tx cycle time out of range"

\* a downlink that is a valid configuration command: port 1, 2 or 3 bytes,
\* interval within the limits
ValidCommand(d) ==
    /\ d.port = 1
    /\ Len(d.pMessage) \in {2, 3}
    /\ 10 <= IntervalOf(d.pMessage)
    /\ IntervalOf(d.pMessage) <= 3600

\* C3: a downlink that is not a valid configuration command (port 0, a port
\* other than 1, a length other than 2 or 3, an interval out of range)
\* leaves gTxCycle, gTxCycleCount, the pending job, the send in flight and
\* the sleep state unchanged; on port 0 it is only logged as a MAC message.
C3_InvalidDownlinkNoEffect ==
    [][\A d \in Downlinks :
          (~ValidCommand(d) /\ receiveMessage(d.port, d.pMessage)) =>
             /\ UNCHANGED <<gTxCycle, gTxCycleCount, sensorJob, txPending, halted,
                            lorawanShutdown, gRebootMs, pc>>
             /\ lastLog' \notin CycleTimeLines
             /\ d.port = 0 => lastLog' = "MAC message"]_vars

\* C3 witness: a message was refused for its port or length while the settle
\* timer was pending, and the timing is still the boot timing
C3_Witness ==
    /\ Booted
    /\ lastLog = "invalid message port/length"
    /\ sensorJob.fn = "settleDoneCb"
    /\ gTxCycle = CATCFG_T_CYCLE_INITIAL
    /\ gTxCycleCount = CATCFG_INTERVAL_COUNT_INITIAL

\* C4: an accepted downlink sets gTxCycle = 256*byte0 + byte1 and
\* gTxCycleCount = byte2 when there are three bytes, else 30; a third byte
\* of 0 is stored as 0.
C4_AcceptedDownlinkSetsTiming ==
    [][\A d \in Downlinks :
          (ValidCommand(d) /\ receiveMessage(d.port, d.pMessage)) =>
             /\ gTxCycle' = 256 * d.pMessage[1] + d.pMessage[2]
             /\ gTxCycleCount' = IF Len(d.pMessage) = 3 THEN d.pMessage[3] ELSE 30
             /\ lastLog' = IF gTxCycleCount' = 0 THEN "message cycle time indefinitely"
                                                 ELSE "message cycle time for messages"]_vars

\* C4 witness: [0x00, 0x1E] was accepted: interval 30 with the default count
C4_Witness ==
    /\ Booted
    /\ lastLog = "message cycle time for messages"
    /\ gTxCycle = 30
    /\ gTxCycleCount = 30

\* C5: once setup() has run, gTxCycle lies in [T_MIN, T_MAX] = [10, 3600]
C5_IntervalInRange ==
    Booted => (10 <= gTxCycle /\ gTxCycle <= 3600)

\* C5 witness: the upper limit was set by downlink and a cycle has passed
C5_Witness ==
    /\ Booted
    /\ gTxCycle = 3600
    /\ gTxCycleCount = 1
    /\ sensorJob.fn = "warmupDoneCb"

\* C6 (as amended): with a count above one, a settle expiry that counts
\* (one updateSleepCounters call) lowers gTxCycleCount by one and keeps
\* gTxCycle; with a count of exactly one it sets gTxCycle to CATCFG_T_CYCLE
\* (360) and gTxCycleCount to 0.  From N > 1 the count is therefore 1 after
\* N-1 cycles and the cycle after that resets.
C6_RepeatCountDecrement ==
    [][\A m \in Instants(gRebootMs), d \in BOOLEAN :
          (settleDoneCb(m, d) /\ Booted') =>
             /\ gTxCycleCount > 1 =>
                    (gTxCycleCount' = gTxCycleCount - 1 /\ gTxCycle' = gTxCycle)
             /\ gTxCycleCount = 1 =>
                    (gTxCycle' = 360 /\ gTxCycleCount' = 0
                        /\ lastLog' = "resetting tx cycle to default")]_vars

\* C6 witness: a downlinked interval has run out and the reset was just made
\* (the device then went into deep sleep)
C6_Witness ==
    /\ Booted
    /\ lastLog = "resetting tx cycle to default"
    /\ gTxCycle = 360
    /\ gTxCycleCount = 0
    /\ EnteredDeepSleep

\* C6 as stated: the cycle that finds the count at one resets the interval
\* and the count to the compiled defaults, the default repeat count being
\* CATCFG_INTERVAL_COUNT
C6_ResetToCompiledDefaults ==
    [][\A m \in Instants(gRebootMs), d \in BOOLEAN :
          (settleDoneCb(m, d) /\ Booted' /\ gTxCycleCount = 1) =>
             (gTxCycle' = CATCFG_T_CYCLE /\ gTxCycleCount' = CATCFG_INTERVAL_COUNT)]_vars

\* C7: while gTxCycleCount is 0 a settle expiry leaves gTxCycle and
\* gTxCycleCount as they are, and the only steps that change them are an
\* accepted downlink and a reboot.
C7_ZeroCountSticks ==
    [][(Booted /\ gTxCycleCount = 0) =>
          /\ \A m \in Instants(gRebootMs), d \in BOOLEAN :
                (settleDoneCb(m, d) /\ Booted') => UNCHANGED timing
          /\ ~UNCHANGED timing =>
                (~Booted' \/ (lastLog' \in CycleTimeLines /\ UNCHANGED sched))]_vars

\* C7 witness: interval 3600 sent with count 0 is still in force in a deep
\* sleep, that is, after a settle expiry that counted
C7_Witness ==
    /\ Booted
    /\ gTxCycleCount = 0
    /\ gTxCycle = 3600
    /\ EnteredDeepSleep

\* nothing of the cycle is armed or in flight
NoTransmitScheduled ==
    /\ ~txPending
    /\ halted = 0
    /\ sensorJob.fn \in {"none", "txNotProvisionedCb"}

\* C8: a send that completes with failure while the device is not provisioned
\* arms txNotProvisionedCb, not settleDoneCb, and shuts the transport down;
\* from then on no send is in flight and no settle, sleep or warm-up timer is
\* armed, in any later state.
C8_NotProvisionedSuspends ==
    [][/\ sendBufferDoneCb(FALSE, FALSE) =>
             (sensorJob'.fn = "txNotProvisionedCb" /\ lorawanShutdown'
                /\ NoTransmitScheduled')
       /\ (Booted /\ lorawanShutdown) =>
             (Booted' /\ lorawanShutdown' /\ NoTransmitScheduled')]_vars

\* C8 witness: the not-provisioned callback has fired and nothing is armed
C8_Witness ==
    /\ Booted
    /\ lorawanShutdown
    /\ lastLog = "LoRaWAN not provisioned yet"
    /\ sensorJob = NoJob
    /\ ~txPending

Sleeping == EnteredDeepSleep \/ EnteredLightSleep

\* C9: a send that completes with success, or with failure while provisioned,
\* arms the settle timer; and, timers firing and sends completing, a pending
\* settle timer leads to a sleep (unless the deadline reboots the device), a
\* sleep leads to the warm-up timer and the warm-up timer to the next send.
C9_FailureWhileProvisionedContinues ==
    /\ [][\A fStatus \in BOOLEAN, provisioned \in BOOLEAN :
             (sendBufferDoneCb(fStatus, provisioned) /\ (fStatus \/ provisioned)) =>
                 (sensorJob'.fn = "settleDoneCb" /\ sensorJob'.delay = 5
                    /\ ~lorawanShutdown')]_vars
    /\ (Booted /\ sensorJob.fn = "settleDoneCb") ~> (Sleeping \/ ~Booted)
    /\ Sleeping ~> (sensorJob.fn = "warmupDoneCb")
    /\ (sensorJob.fn = "warmupDoneCb") ~> txPending

\* C9 witness: a send failed on a provisioned device, the device has slept
\* and the warm-up timer that starts the next send is armed
C9_Witness ==
    /\ Booted
    /\ lastLog = "send buffer failed"
    /\ sensorJob.fn = "warmupDoneCb"

\* C10: when the settle timer fires past the deadline the device resets and
\* nothing else happens (no counting, no sleep, no timer, no send); when the
\* deadline has not passed it stays up and enters exactly one sleep, the one
\* the sleep policy gives.
C10_RebootOverridesSettle ==
    [][\A m \in Instants(gRebootMs), d \in BOOLEAN :
          settleDoneCb(m, d) =>
             IF m > gRebootMs
             THEN /\ pc' = "reset"
                  /\ sensorJob' = NoJob /\ halted' = 0 /\ ~txPending'
                  /\ lastLog' # "resetting tx cycle to default"
                  /\ gTxCycleCount' = 0 /\ gTxCycle' = 0
             ELSE /\ Booted'
                  /\ EnteredDeepSleep' # EnteredLightSleep'
                  /\ EnteredDeepSleep' <=> checkDeepSleep(operatingFlags, d)
                  /\ ~txPending']_vars

\* C10 witness: the device has been reset by the deadline
C10_Witness ==
    pc = "reset"

\* the four callbacks the sketch arms on sensorJob
CallbackNames == {"settleDoneCb", "txNotProvisionedCb", "sleepDoneCb", "warmupDoneCb"}

\* C11: sensorJob holds at most one pending callback, one of the four the
\* sketch arms (settle, not-provisioned, light-sleep wake, warm-up); whenever
\* something other than a timer expiry arms it (a send completion, the
\* return from deep sleep, setup) no callback is pending that would be lost;
\* and a pending callback leaves the slot only by firing: the step that
\* changes the slot is the step of the callback armed last.
C11_SingleJobSlot ==
    /\ [](sensorJob.fn \in CallbackNames \cup {"none"})
    /\ []((txPending \/ halted > 0 \/ ~Booted) => sensorJob = NoJob)
    /\ [][(sensorJob.fn # "none" /\ sensorJob' # sensorJob) =>
            CASE sensorJob.fn = "settleDoneCb" ->
                    \/ pc' = "reset" /\ sensorJob' = NoJob
                    \/ halted' > 0 /\ sensorJob' = NoJob
                    \/ halted' = 0 /\ sensorJob'.fn = "sleepDoneCb"
              [] sensorJob.fn = "txNotProvisionedCb" ->
                    sensorJob' = NoJob /\ lastLog' = "LoRaWAN not provisioned yet"
              [] sensorJob.fn = "sleepDoneCb" ->
                    sensorJob' = os_setTimedCallback("warmupDoneCb", CATCFG_T_WARMUP, "sec")
              [] sensorJob.fn = "warmupDoneCb" ->
                    sensorJob' = NoJob /\ txPending']_vars

\* C11 witness: the light-sleep callback has fired and the warm-up callback
\* now holds the slot, on a unit that never deep-sleeps
C11_Witness ==
    /\ Booted
    /\ "fDisableDeepSleep" \in operatingFlags
    /\ "fDeepSleepTest" \notin operatingFlags
    /\ sensorJob = os_setTimedCallback("warmupDoneCb", CATCFG_T_WARMUP, "sec")
    /\ halted = 0

\* C12: an accepted downlink changes gTxCycle and gTxCycleCount and nothing
\* of the schedule: the pending timer (settle, sleep or warm-up) is neither
\* changed nor re-armed, no send is started or dropped, no sleep is entered
\* or left.  The timing is read only when the settle timer fires: the sleep
\* entered then lasts CATCFG_GetInterval of the interval in force at that
\* moment, and the delay of every other timer is a compiled constant.
C12_DownlinkAtCycleBoundary ==
    [][/\ \A d \in Downlinks :
             (ValidCommand(d) /\ receiveMessage(d.port, d.pMessage)) =>
                UNCHANGED <<sensorJob, txPending, halted, lorawanShutdown, pc, gRebootMs>>
       /\ \A m \in Instants(gRebootMs), dtr \in BOOLEAN :
             (settleDoneCb(m, dtr) /\ Booted') =>
                /\ EnteredDeepSleep' =>
                      halted' = CATCFG_GetInterval(
                                    IF "fDeepSleepTest" \in operatingFlags
                                    THEN CATCFG_T_CYCLE_TEST ELSE gTxCycle')
                /\ (EnteredLightSleep' /\ "fQuickLightSleep" \notin operatingFlags) =>
                      sensorJob'.delay = CATCFG_GetInterval(gTxCycle')
       /\ (sensorJob' # sensorJob /\ sensorJob'.fn \in {"settleDoneCb", "txNotProvisionedCb"})
             => sensorJob'.delay = CATCFG_T_SETTLE
       /\ (sensorJob' # sensorJob /\ sensorJob'.fn = "warmupDoneCb")
             => sensorJob'.delay = CATCFG_T_WARMUP]_vars

\* C12 witness: a downlink was accepted while the light-sleep timer was
\* pending: the timer still carries the delay of the interval that was in
\* force when the settle timer fired
C12_Witness ==
    /\ Booted
    /\ lastLog \in CycleTimeLines
    /\ sensorJob.fn = "sleepDoneCb"
    /\ sensorJob.unit = "sec"
    /\ sensorJob.delay = CATCFG_GetInterval(CATCFG_T_CYCLE_INITIAL)
    /\ gTxCycle = 3600

InManufacturingTest == "fManufacturingTest" \in operatingFlags

\* C13: on a unit whose manufacturing-test flag is set, after setup() no send
\* is ever handed to the transport, no cycle timer is ever armed on
\* sensorJob, the unit never halts for deep sleep and never arms the
\* light-sleep timer; loop() can always run, and each run of it builds a
\* message with fillBuffer and schedules nothing.
C13_ManufacturingTestNoSend ==
    /\ []((Booted /\ InManufacturingTest) =>
             /\ ~txPending
             /\ sensorJob = NoJob
             /\ ~EnteredDeepSleep /\ ~EnteredLightSleep
             /\ ~lorawanShutdown
             /\ ENABLED loop)
    /\ [][loop => (lastLog' = "fillBuffer" /\ UNCHANGED sched)]_vars

\* C13 witness: loop() has run fillBuffer on a manufacturing-test unit and
\* nothing is in flight or armed
C13_Witness ==
    /\ Booted
    /\ InManufacturingTest
    /\ lastLog = "fillBuffer"
    /\ ~txPending
    /\ sensorJob = NoJob

\* width in bytes of field k (bitmap bit k) in the message-format table
FieldWidth(k) == <<2, 2, 1, 2, 2, 2, 2>>[k + 1]

\* the fields fillBuffer writes for sample s: the two voltages always, the
\* three SAR counts and the amplitude when the sensor is there
FieldsWritten(s) == IF s.fProximity THEN {0, 1, 3, 4, 5, 6} ELSE {0, 1}

\* the 16-bit word field k of sample s is sent as
FieldWord(s, k) ==
    CASE k = 0 -> s.vBat % 65536
      [] k = 1 -> s.vBus % 65536
      [] k = 3 -> s.sarCh0
      [] k = 4 -> s.sarCh1
      [] k = 5 -> s.sarCh2
      [] k = 6 -> s.amplitude % 65536

\* total width of the fields of F below field k
RECURSIVE WidthBelow(_, _)
WidthBelow(F, k) ==
    IF k = 0 THEN 0
    ELSE WidthBelow(F, k - 1) + (IF (k - 1) \in F THEN FieldWidth(k - 1) ELSE 0)

\* C14: every message fillBuffer builds has 0x2f in byte 0 and the flags in
\* byte 1; bit k of the flags is set exactly when field k was written (bit 7
\* is clear); the data bytes are the written fields in ascending tag order,
\* each with its fixed width (2,2,1,2,2,2,2 for fields 0..6), so field k
\* starts at byte 2 plus the widths of the written fields below it and the
\* message ends after the last written field.
C14_FlagsMatchFields ==
    txBuffer # <<>> =>
       LET flags == txBuffer[2]
           F == FieldsWritten(sample)
       IN /\ txBuffer[1] = 47
          /\ \A k \in 0..7 : BitSet(flags, k) <=> k \in F
          /\ Len(txBuffer) = 2 + WidthBelow(F, 7)
          /\ \A k \in F :
                LET at == 2 + WidthBelow(F, k)
                IN txBuffer[at + 1] * 256 + txBuffer[at + 2] = FieldWord(sample, k)

\* C14 witness: a message with all the sensor fields, the amplitude negative
C14_Witness ==
    /\ txBuffer # <<>>
    /\ sample.fProximity
    /\ sample.amplitude < 0
    /\ Len(txBuffer) = 14
    /\ BitSet(txBuffer[2], 6)

\* the decoder was given the message as fillBuffer built it, on port 1
DecodedWholeUplink ==
    /\ txBuffer # <<>>
    /\ decoded # NotDecoded
    /\ ttnIn = [bytes |-> txBuffer, fPort |-> 1]

\* C15: decoding the bytes fillBuffer produced gives back the sample field
\* for field: the voltages as raw/4096 with their sign, the three counts as
\* unsigned 16-bit values, the amplitude as a signed 16-bit value; the
\* sensor fields are absent when the sensor is absent, the boot counter is
\* always absent, and the decoder stops at the end of the message.
C15_RoundTrip ==
    DecodedWholeUplink =>
       /\ decoded.result = "object"
       /\ decoded.vBat = Number(sample.vBat, 4096)
       /\ decoded.vBus = Number(sample.vBus, 4096)
       /\ decoded.boot = Absent
       /\ decoded.sarCh0 = IF sample.fProximity THEN Number(sample.sarCh0, 1) ELSE Absent
       /\ decoded.sarCh1 = IF sample.fProximity THEN Number(sample.sarCh1, 1) ELSE Absent
       /\ decoded.sarCh2 = IF sample.fProximity THEN Number(sample.sarCh2, 1) ELSE Absent
       /\ decoded.amplitude =
             IF sample.fProximity THEN Number(sample.amplitude, 1) ELSE Absent
       /\ decoded.i = Len(txBuffer)

\* C15 witness: a sample with a negative battery reading, the largest count
\* on channel 0 and a negative amplitude has gone through encoder and decoder
C15_Witness ==
    /\ DecodedWholeUplink
    /\ sample.fProximity
    /\ sample.vBat = -1
    /\ sample.sarCh0 = 65535
    /\ sample.amplitude = -15
    /\ decoded.amplitude.v < 0

\* the property of the decoded object that carries field k
DecodedField(d, k) ==
    <<d.vBat, d.vBus, d.boot, d.sarCh0, d.sarCh1, d.sarCh2, d.amplitude>>[k + 1]

\* a 16-bit word read as int16
AsInt16(w) == IF w >= 32768 THEN w - 65536 ELSE w

\* the value of field k that the format table gives to the bytes at offset at
FieldValueAt(bytes, k, at) ==
    LET w == bytes[at + 1] * 256 + bytes[at + 2]
    IN CASE k \in {0, 1} -> Number(AsInt16(w), 4096)
         [] k = 2 -> Number(bytes[at + 1], 1)
         [] k \in {3, 4, 5} -> Number(w, 1)
         [] k = 6 -> Number(AsInt16(w), 1)

\* C16: a buffer on a port other than 1, or whose first byte is not 0x2f, is
\* not decoded (null).  Otherwise, for every flags byte, the decoded object
\* has exactly the fields whose bits 0..6 are set; field k is read at byte 2
\* plus the fixed widths of the flagged fields below it, so the fields are
\* taken in ascending bit order; and the cursor ends at byte 2 plus the
\* widths of all flagged fields.  With flags 0x49 only vBat, sarCh0 and
\* amplitude are decoded and exactly 6 data bytes are consumed.
C16_DecoderFollowsFlags ==
    decoded # NotDecoded =>
       LET b == ttnIn.bytes
       IN IF ttnIn.fPort # 1 \/ Len(b) = 0 \/ b[1] # 47
          THEN decoded = Null
          ELSE LET F == IF Len(b) >= 2 THEN {k \in 0..6 : BitSet(b[2], k)} ELSE {}
               IN /\ decoded.result = "object"
                  /\ \A k \in 0..6 : (DecodedField(decoded, k) # Absent) <=> k \in F
                  /\ decoded.i = 2 + WidthBelow(F, 7)
                  /\ \A k \in F :
                        LET at == 2 + WidthBelow(F, k)
                        IN at + FieldWidth(k) <= Len(b) =>
                              DecodedField(decoded, k) = FieldValueAt(b, k, at)
                  /\ (Len(b) >= 2 /\ b[2] = 73) =>
                        /\ {k \in 0..6 : DecodedField(decoded, k) # Absent} = {0, 3, 6}
                        /\ decoded.i - 2 = 6

\* C16 witness: flags 0x49 over eight or more bytes: vBat, sarCh0 and
\* amplitude were decoded from the first six data bytes
C16_Witness ==
    /\ decoded.result = "object"
    /\ Len(ttnIn.bytes) >= 8
    /\ ttnIn.bytes[2] = 73
    /\ decoded.vBat.t = "number"
    /\ decoded.sarCh0.t = "number"
    /\ decoded.amplitude.t = "number"
    /\ decoded.vBus = Absent
    /\ decoded.i = 8

\* the decoder was given a port-1 message of format 0x2f that ends before
\* the last field its flags byte announces (or before the flags byte)
DecodedShortBuffer ==
    /\ decoded # NotDecoded
    /\ ttnIn.fPort = 1
    /\ Len(ttnIn.bytes) >= 1
    /\ ttnIn.bytes[1] = 47
    /\ \/ Len(ttnIn.bytes) = 1
       \/ Len(ttnIn.bytes) <
             2 + WidthBelow({k \in 0..6 : BitSet(ttnIn.bytes[2], k)}, 7)

\* C17: decoding a buffer that is exhausted before all flagged fields have
\* been consumed does not give a decoded sample: the result is not an object
\* of fields.
C17_TruncatedIsAnError ==
    DecodedShortBuffer => decoded.result # "object"

\* where the unit is in its cycle
Phase ==
    IF ~Booted THEN "off"
    ELSE IF txPending THEN "sending"
    ELSE IF halted > 0 THEN "sleeping"
    ELSE CASE sensorJob.fn = "settleDoneCb" -> "settling"
           [] sensorJob.fn = "txNotProvisionedCb" -> "notProvisioned"
           [] sensorJob.fn = "sleepDoneCb" -> "sleeping"
           [] sensorJob.fn = "warmupDoneCb" -> "warmingUp"
           [] OTHER -> "idle"

\* the changes of phase of one cycle, each made by a transport completion or
\* a timer expiry (or setup, or the reset at the deadline)
PhaseChanges ==
    {<<"off", "sending">>, <<"off", "idle">>,
     <<"sending", "settling">>, <<"sending", "notProvisioned">>,
     <<"settling", "sleeping">>, <<"settling", "off">>,
     <<"sleeping", "warmingUp">>,
     <<"warmingUp", "sending">>,
     <<"notProvisioned", "idle">>}

\* C18: setup() starts the first send exactly when the unit is provisioned
\* and not in manufacturing test; every later send starts from the warm-up
\* callback; between two sends the unit goes, in this order and one step
\* each, through the send completion, the settle expiry, one sleep (deep or
\* light) and the warm-up expiry; the phase never changes in any other way.
C18_CycleOrder ==
    [][/\ \A r \in RndDraws, p \in BOOLEAN :
             Setup(r, p) => (txPending' <=> (p /\ ~InManufacturingTest))
       /\ Phase' # Phase => <<Phase, Phase'>> \in PhaseChanges
       /\ (txPending' /\ ~txPending /\ Booted) => sensorJob.fn = "warmupDoneCb"
       /\ (Phase = "sleeping" /\ Phase' = "sleeping") =>
             UNCHANGED <<sensorJob, halted>>]_vars

\* C18 witness: a send is in flight that the warm-up callback started, after
\* a cycle that went through a sleep
C18_Witness ==
    /\ Booted
    /\ txPending
    /\ g_fPrintedSleeping
    /\ sensorJob = NoJob
    /\ lastLog = "fillBuffer"

\* the timing setup() installs, counted down
WarmUpCadence == {<<CATCFG_T_CYCLE_INITIAL, k>> : k \in 1..CATCFG_INTERVAL_COUNT_INITIAL}

\* the timing the countdown ends in
StandardCadence == <<CATCFG_T_CYCLE, 0>>

\* C19: with no downlink and no reboot, after setup() the timing is (30, k)
\* with k in 1..10 or it is (360, 0); every settle expiry at interval 30
\* lowers k by one, and the one that finds k = 1 sets (360, 0), so the 30 s
\* interval lasts for at most 10 cycles; (360, 0) is never left; and,
\* timers firing and sends completing, a unit that is sending gets there
\* unless the transport is shut down for want of provisioning.
C19_WarmUpCadenceConverges ==
    /\ [](Booted => (timing \in WarmUpCadence \/ timing = StandardCadence))
    /\ [][(Booted /\ timing = StandardCadence) => timing' = StandardCadence]_vars
    /\ [][(Booted /\ timing \in WarmUpCadence) =>
            /\ SettleBeforeDeadline =>
                  timing' = IF gTxCycleCount > 1
                            THEN <<CATCFG_T_CYCLE_INITIAL, gTxCycleCount - 1>>
                            ELSE StandardCadence
            /\ timing' # timing => sensorJob.fn = "settleDoneCb"]_vars
    /\ (Booted /\ txPending) ~> (timing = StandardCadence \/ lorawanShutdown)

\* C19 witness: the countdown has run out and a send is in flight at the
\* standard cadence
C19_Witness ==
    /\ Booted
    /\ timing = StandardCadence
    /\ txPending
    /\ lastLog = "fillBuffer"

\* C20: setup() stores as reboot deadline exactly the nominal period plus the
\* jitter r - 32768, in milliseconds, for every draw r; the arithmetic that
\* computes it does not overflow; and while the unit runs the deadline is
\* not modified.
C20_DeadlineExact ==
    [][/\ \A r \in RndDraws, p \in BOOLEAN :
             Setup(r, p) =>
                /\ ~MulOverflowsInt(CATCFG_T_REBOOT + r - RndBias)
                /\ gRebootMs' = CATCFG_T_REBOOT + r - RndBias
       /\ (Booted /\ Booted') => gRebootMs' = gRebootMs]_vars

\* the interfaces the sketch has begun when it runs awake
AwakePeripherals == {"Serial", "Wire", "SPI"} \cup (IF fFlash THEN {"SPI2"} ELSE {})

\* C21: deep sleep ends, before the halt, Serial, Wire, SPI and, exactly when
\* the flash is present, SPI2, and nothing else; the return from the halt
\* begins these same interfaces again and no other, so the unit hands over
\* to the warm-up step with the set of interfaces it entered doDeepSleep
\* with; the flash-present flag does not change while the unit runs.
C21_SuspendResumeSymmetric ==
    /\ []((Booted /\ ~EnteredDeepSleep) => peripherals = AwakePeripherals)
    /\ []((Booted /\ EnteredDeepSleep) => peripherals = {})
    /\ []((Booted /\ ~fFlash) => "SPI2" \notin peripherals)
    /\ [][/\ (EnteredDeepSleep' /\ ~EnteredDeepSleep) =>
               peripherals \ peripherals' = AwakePeripherals
          /\ (EnteredDeepSleep /\ ~EnteredDeepSleep') =>
               /\ peripherals' \ peripherals = AwakePeripherals
               /\ sensorJob'.fn = "warmupDoneCb"
          /\ (Booted /\ Booted') => fFlash' = fFlash]_vars

\* C21 witness: a unit without working flash has been through a deep sleep
\* and is warming up with Serial, Wire and SPI begun again and SPI2 not
C21_Witness ==
    /\ Booted
    /\ ~fFlash
    /\ lastLog = "Starting deep sleep"
    /\ sensorJob.fn = "warmupDoneCb"
    /\ peripherals = {"Serial", "Wire", "SPI"}

\* the interval that governs the sleep a settle expiry enters: the default
\* when the count stands at one, else the interval in force
GoverningInterval == IF gTxCycleCount = 1 THEN CATCFG_T_CYCLE ELSE gTxCycle

\* C22: a settle expiry updates the repeat counters first and computes the
\* sleep duration from the updated interval.  An accepted downlink stores
\* its count N; a settle expiry that finds the count at k >= 2 sleeps for the
\* downlinked interval and leaves k - 1; the one that finds it at 1 already
\* sleeps for the default interval and leaves 0.  So an interval accepted
\* with count N >= 1 governs N - 1 sleeps, and none when N = 1.
C22_CountersBeforeSleep ==
    [][/\ \A m \in Instants(gRebootMs), dtr \in BOOLEAN :
             (settleDoneCb(m, dtr) /\ Booted') =>
                /\ gTxCycle' = GoverningInterval
                /\ (EnteredLightSleep' /\ "fQuickLightSleep" \notin operatingFlags) =>
                      sensorJob'.delay = CATCFG_GetInterval(GoverningInterval)
                /\ (EnteredDeepSleep' /\ "fDeepSleepTest" \notin operatingFlags) =>
                      halted' = CATCFG_GetInterval(GoverningInterval)
                /\ gTxCycleCount >= 2 =>
                      (gTxCycleCount' = gTxCycleCount - 1 /\ GoverningInterval = gTxCycle)
                /\ gTxCycleCount = 1 => gTxCycleCount' = 0
       /\ \A d \in Downlinks :
             (ValidCommand(d) /\ Len(d.pMessage) = 3
                    /\ receiveMessage(d.port, d.pMessage)) =>
                (gTxCycleCount' = d.pMessage[3] /\ UNCHANGED sched)]_vars

\* C22 witness: interval 3600 was accepted with count 2 and has governed one
\* light sleep; the count stands at 1, so the next sleep takes the default
C22_Witness ==
    /\ Booted
    /\ EnteredLightSleep
    /\ sensorJob.delay = CATCFG_GetInterval(3600)
    /\ gTxCycle = 3600
    /\ gTxCycleCount = 1

\* C23: while a send awaits its completion nothing is armed on sensorJob and
\* the unit is not asleep, so no timer can start another send; the two
\* places that call startSendingUplink, setup() and the warm-up callback,
\* run only when no send is outstanding; and a send becomes outstanding
\* only from there.  Hence at most one send is outstanding at any time.
C23_OneSendOutstanding ==
    /\ [](txPending => (Booted /\ sensorJob = NoJob /\ halted = 0))
    /\ [][/\ warmupDoneCb => (~txPending /\ txPending' /\ sensorJob' = NoJob)
          /\ \A r \in RndDraws, p \in BOOLEAN :
                Setup(r, p) => (~txPending /\ sensorJob = NoJob /\ halted = 0)
          /\ (txPending' /\ ~txPending) =>
                (IF Booted THEN sensorJob.fn = "warmupDoneCb" ELSE sensorJob = NoJob)
          /\ \A fStatus \in BOOLEAN, p \in BOOLEAN :
                sendBufferDoneCb(fStatus, p) => (txPending /\ ~txPending')]_vars

\* C23 witness: the second send after boot is outstanding (one cycle has
\* counted) and nothing is armed
C23_Witness ==
    /\ Booted
    /\ txPending
    /\ sensorJob = NoJob
    /\ halted = 0
    /\ gTxCycleCount = CATCFG_INTERVAL_COUNT_INITIAL - 1

\* C24: every message fillBuffer builds has flags 0x03 and 6 bytes when the
\* sensor is absent, flags 0x7B and 14 bytes when it is present; bit 2 (boot
\* counter) and bit 7 (reserved) are never set; without the sensor the
\* message is still built, and decoding it gives the two voltages with the
\* three counts and the amplitude absent.
C24_FlagsOneOfTwo ==
    txBuffer # <<>> =>
       /\ IF sample.fProximity
          THEN txBuffer[2] = 123 /\ Len(txBuffer) = 14
          ELSE txBuffer[2] = 3 /\ Len(txBuffer) = 6
       /\ ~BitSet(txBuffer[2], 2)
       /\ ~BitSet(txBuffer[2], 7)
       /\ (DecodedWholeUplink /\ ~sample.fProximity) =>
             /\ decoded.result = "object"
             /\ decoded.vBat.t = "number" /\ decoded.vBus.t = "number"
             /\ {decoded.sarCh0, decoded.sarCh1, decoded.sarCh2, decoded.amplitude}
                   = {Absent}

\* C24 witness: a unit without the sensor has built its 6-byte message and
\* the network has decoded it
C24_Witness ==
    /\ DecodedWholeUplink
    /\ ~sample.fProximity
    /\ txBuffer[2] = 3
    /\ Len(txBuffer) = 6
    /\ decoded.result = "object"

\* the duration of the sleep the unit is in: the halt of deep sleep or the
\* delay of the light-sleep timer
SleepDuration == IF EnteredDeepSleep THEN halted ELSE sensorJob.delay

\* C25: for every configured interval t in [T_MIN, T_MAX] = [10, 3600] the
\* sleep a settle expiry enters lasts CATCFG_GetInterval(t), which is at
\* least 1 second: 1 when t <= 10 and t - 10 otherwise, so that for t >= 11
\* the sleep plus the overhead of 10 s is t; the subtraction never goes
\* below zero.
C25_SleepAtLeastOneSecond ==
    [][\A m \in Instants(gRebootMs), dtr \in BOOLEAN :
          (settleDoneCb(m, dtr) /\ Booted') =>
             LET t == gTxCycle'
             IN /\ CATCFG_T_MIN <= t /\ t <= CATCFG_T_MAX
                /\ SleepDuration' = CATCFG_GetInterval(t)
                /\ SleepDuration' >= 1
                /\ t <= 10 => SleepDuration' = 1
                /\ t >= 11 => (SleepDuration' = t - 10
                                 /\ SleepDuration' + CATCFG_T_OVERHEAD = t)
                /\ t - CATCFG_T_OVERHEAD >= 0]_vars

\* C25 witness: with the shortest interval, 10 s, the unit is in a deep
\* sleep of one second
C25_Witness ==
    /\ Booted
    /\ gTxCycle = CATCFG_T_MIN
    /\ EnteredDeepSleep
    /\ halted = 1

TypeOK ==
    /\ pc \in {"poweron", "reset", "running"}
    /\ gTxCycle \in 0..65535
    /\ gTxCycleCount \in 0..255

====
